---- MODULE Spec2Model ----
(***************************************************************************)
(* CRUD HTTP API over one document collection (items / products).          *)
(*                                                                         *)
(* The repository holds three builds of the same API:                      *)
(*   "controller"  src/controllers/items.controllers.js (the same code is  *)
(*                 inlined in src/unnamed/part_001): fields name,          *)
(*                 description, quantity;                                  *)
(*   "items"       src/unnamed/part_002: fields name, category, price;     *)
(*   "products"    src/server.js: fields name, category, price, no PATCH.  *)
(* A behaviour runs one build (variable variant) against one collection.   *)
(*                                                                         *)
(* JSON values are records [t, s, n]: t is the kind, s the characters of a *)
(* string (a sequence of one-character strings), n the value of a number.  *)
(* A request body is [kind, name, text, number, other]: text stands for    *)
(* the secondary field (description | category), number for the numeric    *)
(* field (quantity | price), other is TRUE when the body carries a key     *)
(* outside the recognised set.  A JSON array body behaves as an object     *)
(* without recognised keys (other = TRUE when it is not empty).            *)
(***************************************************************************)
EXTENDS Integers, Sequences, FiniteSets, TLC

VARIABLES variant, coll, nextId, now, last, list, inflight

vars == <<variant, coll, nextId, now, last, list, inflight>>

\* the number of documents the storage engine is asked to insert in one run
MaxDocs == 1

\* the readings of the clock behind new Date(): two are enough to tell a
\* refreshed timestamp from a kept one
Clock == {0, 1}

\* ---------------------------------------------------------------------------
\* JavaScript values
\* ---------------------------------------------------------------------------
V(t, s, n) == [t |-> t, s |-> s, n |-> n]

Undefined == V("undefined", <<>>, 0)
Null == V("null", <<>>, 0)
Str(s) == V("string", s, 0)
Num(n) == V("number", <<>>, n)
Infinity == V("inf", <<>>, 0)
NaN == V("nan", <<>>, 0)

\* typeof v
TypeOf(v) ==
  CASE v.t \in {"number", "inf", "nan"} -> "number"
    [] v.t = "null" -> "object"
    [] OTHER -> v.t

\* ToBoolean(v), as used by !v, v && ..., v || ... and if (v)
Truthy(v) ==
  CASE v.t \in {"undefined", "null", "nan"} -> FALSE
    [] v.t = "string" -> Len(v.s) > 0
    [] v.t = "number" -> v.n # 0
    [] v.t = "boolean" -> v.n # 0
    [] OTHER -> TRUE

IsSpace(c) == c = " "

RECURSIVE TrimStart(_)
TrimStart(s) ==
  IF s = <<>> THEN <<>>
  ELSE IF IsSpace(Head(s)) THEN TrimStart(Tail(s)) ELSE s

RECURSIVE TrimEnd(_)
TrimEnd(s) ==
  IF s = <<>> THEN <<>>
  ELSE IF IsSpace(s[Len(s)]) THEN TrimEnd(SubSeq(s, 1, Len(s) - 1)) ELSE s

\* String.prototype.trim
Trim(s) == TrimEnd(TrimStart(s))

DigitVal(c) ==
  CASE c = "0" -> 0 [] c = "1" -> 1 [] c = "2" -> 2 [] c = "3" -> 3
    [] c = "4" -> 4 [] c = "5" -> 5 [] c = "6" -> 6 [] c = "7" -> 7
    [] c = "8" -> 8 [] c = "9" -> 9 [] OTHER -> -1

IsDigits(s) == s # <<>> /\ \A i \in 1..Len(s) : DigitVal(s[i]) >= 0

RECURSIVE DigitsVal(_)
DigitsVal(s) ==
  IF s = <<>> THEN 0
  ELSE 10 * DigitsVal(SubSeq(s, 1, Len(s) - 1)) + DigitVal(s[Len(s)])

\* Number(v): the numeric conversion of a JSON value
NumberOf(v) ==
  CASE v.t \in {"number", "inf", "nan"} -> v
    [] v.t = "undefined" -> NaN
    [] v.t = "null" -> Num(0)
    [] v.t = "boolean" -> Num(v.n)
    [] v.t = "string" ->
         LET s == Trim(v.s) IN
         IF s = <<>> THEN Num(0)
         ELSE IF IsDigits(s) THEN Num(DigitsVal(s))
         ELSE IF Head(s) = "-" /\ IsDigits(Tail(s)) THEN Num(0 - DigitsVal(Tail(s)))
         ELSE NaN
    [] OTHER -> NaN

\* Number.isNaN(p) || p < 0
NaNOrNegative(p) == p.t = "nan" \/ (p.t = "number" /\ p.n < 0)

\* a ?? d
Coalesce(a, d) == IF a.t \in {"undefined", "null"} THEN d ELSE a

\* ---------------------------------------------------------------------------
\* The storage engine's identifier type (ObjectId of the mongodb driver)
\* ---------------------------------------------------------------------------
LowerHex == {"0", "1", "2", "3", "4", "5", "6", "7", "8", "9", "a", "b", "c", "d", "e", "f"}
UpperHex == {"A", "B", "C", "D", "E", "F"}

IsHex(s) == \A i \in 1..Len(s) : s[i] \in LowerHex \cup UpperHex

ToLower(c) ==
  CASE c = "A" -> "a" [] c = "B" -> "b" [] c = "C" -> "c"
    [] c = "D" -> "d" [] c = "E" -> "e" [] c = "F" -> "f" [] OTHER -> c

\* the two hex digits of a character's code
CharHex(c) ==
  CASE c = "a" -> <<"6", "1">> [] c = "z" -> <<"7", "a">>
    [] c = "A" -> <<"4", "1">> [] c = "0" -> <<"3", "0">>
    [] OTHER -> <<"3", "f">>

RECURSIVE BytesHex(_)
BytesHex(s) == IF s = <<>> THEN <<>> ELSE CharHex(Head(s)) \o BytesHex(Tail(s))

\* ObjectId.isValid(id) for a string id, in the driver generation the handlers
\* are written for (findOneAndUpdate answering {value}): 24 hex digits of
\* either case, or any 12-character string, taken as the 12 raw bytes.
ObjectIdIsValid(id) ==
  \/ Len(id) = 24 /\ IsHex(id)
  \/ Len(id) = 12

\* String(new ObjectId(id)), for an id ObjectId.isValid accepts: the
\* lower-case hex form of the 12 bytes.
ObjectIdHex(id) ==
  IF Len(id) = 24 THEN [i \in 1..24 |-> ToLower(id[i])] ELSE BytesHex(id)

\* the identifier the storage engine assigns to the n-th inserted document
Oid(n) == [i \in 1..24 |-> IF i = 24 THEN CHOOSE c \in LowerHex : DigitVal(c) = n ELSE "a"]

\* ---------------------------------------------------------------------------
\* Identifier validators
\* ---------------------------------------------------------------------------
\* controllers/items.controllers.js
isValidObjectId(id) == ObjectIdIsValid(id) /\ ObjectIdHex(id) = id

\* unnamed/part_002; server.js calls ObjectId.isValid inline in the same way
isValidId(id) == ObjectIdIsValid(id)

\* the identifier check of the running build
IdAccepted(id) == IF variant = "controller" THEN isValidObjectId(id) ELSE isValidId(id)

\* ---------------------------------------------------------------------------
\* The collection
\* ---------------------------------------------------------------------------
NoDoc == [_id |-> <<>>, name |-> Null, text |-> Null, number |-> Null,
          createdAt |-> 0, updatedAt |-> 0]

\* findOne({_id: key}); NoDoc stands for null
FindOne(c, key) ==
  IF \E d \in c : d._id = key THEN CHOOSE d \in c : d._id = key ELSE NoDoc

Matched(c, key) == \E d \in c : d._id = key

\* SetFields with the numeric field added to the stored one ($inc for $set)
SetFields_inc(d, u) ==
  [d EXCEPT !.name = IF u.name.t = "undefined" THEN @ ELSE u.name,
            !.text = IF u.text.t = "undefined" THEN @ ELSE u.text,
            !.number = IF u.number.t = "undefined" THEN @ ELSE Num(@.n + u.number.n),
            !.updatedAt = u.updatedAt]

\* the effect of {$set: u} on one document; a field that is undefined in u is
\* not part of the update
SetFields(d, u) ==
  [d EXCEPT !.name = IF u.name.t = "undefined" THEN @ ELSE u.name,
            !.text = IF u.text.t = "undefined" THEN @ ELSE u.text,
            !.number = IF u.number.t = "undefined" THEN @ ELSE u.number,
            !.updatedAt = u.updatedAt]

\* UpdateOne with the filter lost: every document is updated (updateMany({}))
UpdateOne_all(c, key, u) == {SetFields(d, u) : d \in c}

\* updateOne / findOneAndUpdate({_id: key}, {$set: u}) without upsert
UpdateOne(c, key, u) == {IF d._id = key THEN SetFields(d, u) ELSE d : d \in c}

\* deleteOne / findOneAndDelete({_id: key})
DeleteOne(c, key) == {d \in c : d._id # key}

\* insertOne(doc): the engine assigns the identifier
InsertOne(c, doc, n) == c \cup {[doc EXCEPT !._id = Oid(n)]}

NewDoc(name, text, number, t) ==
  [_id |-> <<>>, name |-> name, text |-> text, number |-> number,
   createdAt |-> t, updatedAt |-> t]

Update(name, text, number, t) ==
  [name |-> name, text |-> text, number |-> number, updatedAt |-> t]

\* what a handler leaves behind: the collection and the response
Res(c, status, error, calls, item) ==
  [coll |-> c, status |-> status, error |-> error, calls |-> calls, item |-> item]

\* ---------------------------------------------------------------------------
\* Build "controller": src/controllers/items.controllers.js
\* (text = description, number = quantity)
\* ---------------------------------------------------------------------------
NoError == ""

\* Object.keys(body).length
KeyCount(body) ==
  (IF body.name.t = "undefined" THEN 0 ELSE 1)
  + (IF body.text.t = "undefined" THEN 0 ELSE 1)
  + (IF body.number.t = "undefined" THEN 0 ELSE 1)
  + (IF body.other THEN 1 ELSE 0)

validateItemFull(body) ==
  IF body.kind = "undefined" THEN "Body must be a JSON object"
  ELSE IF ~Truthy(body.name) \/ TypeOf(body.name) # "string" \/ Trim(body.name.s) = <<>>
    THEN "Field 'name' is required and must be a non-empty string"
  ELSE IF body.text.t # "undefined" /\ TypeOf(body.text) # "string"
    THEN "Field 'description' must be a string"
  ELSE IF body.number.t # "undefined" /\ TypeOf(body.number) # "number"
    THEN "Field 'quantity' must be a number"
  ELSE NoError

validateItemPartial(body) ==
  IF body.kind = "undefined" THEN "Body must be a JSON object"
  ELSE IF KeyCount(body) = 0 THEN "PATCH body cannot be empty"
  ELSE IF body.other THEN "Unknown field"
  ELSE IF body.name.t # "undefined"
          /\ (TypeOf(body.name) # "string" \/ Trim(body.name.s) = <<>>)
    THEN "Field 'name' must be a non-empty string"
  ELSE IF body.text.t # "undefined" /\ TypeOf(body.text) # "string"
    THEN "Field 'description' must be a string"
  ELSE IF body.number.t # "undefined" /\ TypeOf(body.number) # "number"
    THEN "Field 'quantity' must be a number"
  ELSE NoError

\* createItemDoc storing the name as received
createItemDoc_noTrim(body, t) ==
  NewDoc(body.name, Coalesce(body.text, Str(<<>>)), Coalesce(body.number, Num(0)), t)

\* the document createItem inserts (lines 77-83)
createItemDoc(body, t) ==
  NewDoc(Str(Trim(body.name.s)), Coalesce(body.text, Str(<<>>)),
         Coalesce(body.number, Num(0)), t)

\* the $set document of putItem (lines 104-109)
putItemReplacement(body, t) ==
  Update(Str(Trim(body.name.s)), Coalesce(body.text, Str(<<>>)),
         Coalesce(body.number, Num(0)), t)

\* patchItemDoc storing the name as received
patchItemDoc_noTrim(body, t) == Update(body.name, body.text, body.number, t)

\* the $set document of patchItem (lines 135-136)
patchItemDoc(body, t) ==
  Update(IF Truthy(body.name) THEN Str(Trim(body.name.s)) ELSE body.name,
         body.text, body.number, t)

getItemByIdRes(c, id) ==
  IF ~isValidObjectId(id) THEN Res(c, 400, <<"Invalid ID">>, <<>>, NoDoc)
  ELSE LET item == FindOne(c, ObjectIdHex(id)) IN
       IF item = NoDoc THEN Res(c, 404, <<"Not found">>, <<"findOne">>, NoDoc)
       ELSE Res(c, 200, <<>>, <<"findOne">>, item)

createItemRes(c, body, t, n) ==
  LET validationError == validateItemFull(body) IN
  IF validationError # NoError THEN Res(c, 400, <<validationError>>, <<>>, NoDoc)
  ELSE LET c2 == InsertOne(c, createItemDoc(body, t), n) IN
       Res(c2, 201, <<>>, <<"insertOne", "findOne">>, FindOne(c2, Oid(n)))

putItemRes(c, id, body, t) ==
  IF ~isValidObjectId(id) THEN Res(c, 400, <<"Invalid ID">>, <<>>, NoDoc)
  ELSE LET validationError == validateItemFull(body) IN
  IF validationError # NoError THEN Res(c, 400, <<validationError>>, <<>>, NoDoc)
  ELSE LET key == ObjectIdHex(id) IN
  IF ~Matched(c, key) THEN Res(c, 404, <<"Not found">>, <<"updateOne">>, NoDoc)
  ELSE LET c2 == UpdateOne(c, key, putItemReplacement(body, t)) IN
       Res(c2, 200, <<>>, <<"updateOne", "findOne">>, FindOne(c2, key))

\* patchItemRes validating the body before the id
patchItemRes_bodyFirst(c, id, body, t) ==
  LET validationError == validateItemPartial(body) IN
  IF validationError # NoError THEN Res(c, 400, <<validationError>>, <<>>, NoDoc)
  ELSE IF ~isValidObjectId(id) THEN Res(c, 400, <<"Invalid ID">>, <<>>, NoDoc)
  ELSE LET key == ObjectIdHex(id) IN
  IF ~Matched(c, key) THEN Res(c, 404, <<"Not found">>, <<"updateOne">>, NoDoc)
  ELSE LET c2 == UpdateOne(c, key, patchItemDoc(body, t)) IN
       Res(c2, 200, <<>>, <<"updateOne", "findOne">>, FindOne(c2, key))

patchItemRes(c, id, body, t) ==
  IF ~isValidObjectId(id) THEN Res(c, 400, <<"Invalid ID">>, <<>>, NoDoc)
  ELSE LET validationError == validateItemPartial(body) IN
  IF validationError # NoError THEN Res(c, 400, <<validationError>>, <<>>, NoDoc)
  ELSE LET key == ObjectIdHex(id) IN
  IF ~Matched(c, key) THEN Res(c, 404, <<"Not found">>, <<"updateOne">>, NoDoc)
  ELSE LET c2 == UpdateOne(c, key, patchItemDoc(body, t)) IN
       Res(c2, 200, <<>>, <<"updateOne", "findOne">>, FindOne(c2, key))

deleteItemRes(c, id) ==
  IF ~isValidObjectId(id) THEN Res(c, 400, <<"Invalid ID">>, <<>>, NoDoc)
  ELSE LET key == ObjectIdHex(id) IN
  IF ~Matched(c, key) THEN Res(c, 404, <<"Not found">>, <<"deleteOne">>, NoDoc)
  ELSE Res(DeleteOne(c, key), 204, <<>>, <<"deleteOne">>, NoDoc)

\* ---------------------------------------------------------------------------
\* Build "items": src/unnamed/part_002 (text = category, number = price)
\* ---------------------------------------------------------------------------
General == Str(<<"g", "e", "n", "e", "r", "a", "l">>)

\* category.trim() || "general"
TrimOrGeneral(v) == IF Trim(v.s) = <<>> THEN General ELSE Str(Trim(v.s))

\* typeof category === "string" && category.trim() ? category.trim() : "general"
CategoryOrGeneral(v) == IF TypeOf(v) = "string" THEN TrimOrGeneral(v) ELSE General

\* keeps name, price and category, drops every other key
pickAllowedFields(body) == [name |-> body.name, number |-> body.number, text |-> body.text]

\* the list of error messages; the handler joins them with "; "
validateItemForCreate(body) ==
  (IF body.kind = "undefined" THEN <<"body must be a JSON object">> ELSE <<>>)
  \o (IF Truthy(body.name) /\ TypeOf(body.name) = "string" /\ Trim(body.name.s) # <<>>
      THEN <<>> ELSE <<"name is required (non-empty string)">>)
  \o (IF body.number.t # "undefined" /\ NaNOrNegative(NumberOf(body.number))
      THEN <<"price must be a non-negative number">> ELSE <<>>)
  \o (IF body.text.t # "undefined" /\ TypeOf(body.text) # "string"
      THEN <<"category must be a string">> ELSE <<>>)

Normalized(ok, value, error) == [ok |-> ok, value |-> value, error |-> error]

NoUpdate == Update(Undefined, Undefined, Undefined, 0)

\* {ok, value, error}; value.updatedAt is set by the caller
normalizeItem(body, requireAllFields) ==
  LET data == pickAllowedFields(body) IN
  IF requireAllFields /\ data.name.t = "undefined"
    THEN Normalized(FALSE, NoUpdate, "PUT requires full item: name is required")
  ELSE IF data.name.t # "undefined"
          /\ (TypeOf(data.name) # "string" \/ Trim(data.name.s) = <<>>)
    THEN Normalized(FALSE, NoUpdate, "name must be a non-empty string")
  ELSE IF data.number.t # "undefined" /\ NaNOrNegative(NumberOf(data.number))
    THEN Normalized(FALSE, NoUpdate, "price must be a non-negative number")
  ELSE IF data.text.t # "undefined" /\ TypeOf(data.text) # "string"
    THEN Normalized(FALSE, NoUpdate, "category must be a string")
  ELSE Normalized(TRUE,
         Update(IF data.name.t = "undefined" THEN Undefined ELSE Str(Trim(data.name.s)),
                IF data.text.t = "undefined" THEN Undefined ELSE TrimOrGeneral(data.text),
                IF data.number.t = "undefined" THEN Undefined ELSE NumberOf(data.number),
                0),
         NoError)

\* Object.keys(update).length
UpdateKeyCount(u) ==
  (IF u.name.t = "undefined" THEN 0 ELSE 1)
  + (IF u.text.t = "undefined" THEN 0 ELSE 1)
  + (IF u.number.t = "undefined" THEN 0 ELSE 1)

\* the document POST /api/items inserts (lines 200-208)
ItemsPostDoc(body, t) ==
  NewDoc(Str(Trim(body.name.s)), CategoryOrGeneral(body.text),
         IF body.number.t # "undefined" THEN NumberOf(body.number) ELSE Num(0), t)

\* the $set document of PUT /api/items/:id (lines 236-242)
ItemsPutFullDoc(value, t) ==
  Update(value.name,
         IF value.text.t # "undefined" THEN value.text ELSE General,
         IF value.number.t # "undefined" THEN value.number ELSE Num(0), t)

ItemsGetByIdRes(c, id) ==
  IF ~isValidId(id) THEN Res(c, 400, <<"Invalid id">>, <<>>, NoDoc)
  ELSE LET item == FindOne(c, ObjectIdHex(id)) IN
       IF item = NoDoc THEN Res(c, 404, <<"Item not found">>, <<"findOne">>, NoDoc)
       ELSE Res(c, 200, <<>>, <<"findOne">>, item)

ItemsPostRes(c, body, t, n) ==
  LET errors == validateItemForCreate(body) IN
  IF Len(errors) > 0 THEN Res(c, 400, errors, <<>>, NoDoc)
  ELSE LET c2 == InsertOne(c, ItemsPostDoc(body, t), n) IN
       Res(c2, 201, <<>>, <<"insertOne">>, FindOne(c2, Oid(n)))

\* reading a property of an undefined body throws inside pickAllowedFields; the
\* handler's catch answers 500
ItemsPutRes(c, id, body, t) ==
  IF ~isValidId(id) THEN Res(c, 400, <<"Invalid id">>, <<>>, NoDoc)
  ELSE IF body.kind = "undefined" THEN Res(c, 500, <<"Internal server error">>, <<>>, NoDoc)
  ELSE LET normalized == normalizeItem(body, TRUE) IN
  IF ~normalized.ok THEN Res(c, 400, <<normalized.error>>, <<>>, NoDoc)
  ELSE LET key == ObjectIdHex(id) IN
  IF ~Matched(c, key) THEN Res(c, 404, <<"Item not found">>, <<"findOneAndUpdate">>, NoDoc)
  ELSE LET c2 == UpdateOne(c, key, ItemsPutFullDoc(normalized.value, t)) IN
       Res(c2, 200, <<>>, <<"findOneAndUpdate">>, FindOne(c2, key))

ItemsPatchRes(c, id, body, t) ==
  IF ~isValidId(id) THEN Res(c, 400, <<"Invalid id">>, <<>>, NoDoc)
  ELSE IF body.kind = "undefined" THEN Res(c, 500, <<"Internal server error">>, <<>>, NoDoc)
  ELSE LET normalized == normalizeItem(body, FALSE) IN
  IF ~normalized.ok THEN Res(c, 400, <<normalized.error>>, <<>>, NoDoc)
  ELSE IF UpdateKeyCount(normalized.value) = 0
    THEN Res(c, 400, <<"PATCH requires at least one field">>, <<>>, NoDoc)
  ELSE LET key == ObjectIdHex(id) IN
  IF ~Matched(c, key) THEN Res(c, 404, <<"Item not found">>, <<"findOneAndUpdate">>, NoDoc)
  ELSE LET c2 == UpdateOne(c, key, [normalized.value EXCEPT !.updatedAt = t]) IN
       Res(c2, 200, <<>>, <<"findOneAndUpdate">>, FindOne(c2, key))

ItemsDeleteRes(c, id) ==
  IF ~isValidId(id) THEN Res(c, 400, <<"Invalid id">>, <<>>, NoDoc)
  ELSE LET key == ObjectIdHex(id) IN
  IF ~Matched(c, key) THEN Res(c, 404, <<"Item not found">>, <<"findOneAndDelete">>, NoDoc)
  ELSE Res(DeleteOne(c, key), 204, <<>>, <<"findOneAndDelete">>, NoDoc)

\* ---------------------------------------------------------------------------
\* Build "products": src/server.js (text = category, number = price)
\* ---------------------------------------------------------------------------
\* the document POST /api/products inserts (lines 129-140)
ProductsPostDoc(body, t) ==
  NewDoc(Str(Trim(body.name.s)), CategoryOrGeneral(body.text),
         IF body.number.t # "undefined" THEN NumberOf(body.number) ELSE Num(0), t)

\* the $set document of PUT /api/products/:id (lines 160-185), once the three
\* field checks have passed
ProductsPutUpdate(body, t) ==
  Update(IF body.name.t = "undefined" THEN Undefined ELSE Str(Trim(body.name.s)),
         IF body.text.t = "undefined" THEN Undefined ELSE TrimOrGeneral(body.text),
         IF body.number.t = "undefined" THEN Undefined ELSE NumberOf(body.number), t)

ProductsGetByIdRes(c, id) ==
  IF ~ObjectIdIsValid(id) THEN Res(c, 400, <<"Invalid id">>, <<>>, NoDoc)
  ELSE LET product == FindOne(c, ObjectIdHex(id)) IN
       IF product = NoDoc THEN Res(c, 404, <<"Product not found">>, <<"findOne">>, NoDoc)
       ELSE Res(c, 200, <<>>, <<"findOne">>, product)

\* destructuring an undefined body throws; the handler's catch answers 500
ProductsPostRes(c, body, t, n) ==
  IF body.kind = "undefined" THEN Res(c, 500, <<"Internal server error">>, <<>>, NoDoc)
  ELSE IF ~Truthy(body.name) \/ TypeOf(body.name) # "string" \/ Trim(body.name.s) = <<>>
    THEN Res(c, 400, <<"name is required">>, <<>>, NoDoc)
  ELSE IF body.number.t # "undefined" /\ NaNOrNegative(NumberOf(body.number))
    THEN Res(c, 400, <<"price must be a non-negative number">>, <<>>, NoDoc)
  ELSE LET c2 == InsertOne(c, ProductsPostDoc(body, t), n) IN
       Res(c2, 201, <<>>, <<"insertOne">>, FindOne(c2, Oid(n)))

ProductsPutRes(c, id, body, t) ==
  IF ~ObjectIdIsValid(id) THEN Res(c, 400, <<"Invalid id">>, <<>>, NoDoc)
  ELSE IF body.kind = "undefined" THEN Res(c, 500, <<"Internal server error">>, <<>>, NoDoc)
  ELSE IF body.name.t # "undefined"
          /\ (TypeOf(body.name) # "string" \/ Trim(body.name.s) = <<>>)
    THEN Res(c, 400, <<"name must be a non-empty string">>, <<>>, NoDoc)
  ELSE IF body.number.t # "undefined" /\ NaNOrNegative(NumberOf(body.number))
    THEN Res(c, 400, <<"price must be a non-negative number">>, <<>>, NoDoc)
  ELSE IF body.text.t # "undefined" /\ TypeOf(body.text) # "string"
    THEN Res(c, 400, <<"category must be a string">>, <<>>, NoDoc)
  ELSE LET key == ObjectIdHex(id) IN
  IF ~Matched(c, key) THEN Res(c, 404, <<"Product not found">>, <<"findOneAndUpdate">>, NoDoc)
  ELSE LET c2 == UpdateOne(c, key, ProductsPutUpdate(body, t)) IN
       Res(c2, 200, <<>>, <<"findOneAndUpdate">>, FindOne(c2, key))

ProductsDeleteRes(c, id) ==
  IF ~ObjectIdIsValid(id) THEN Res(c, 400, <<"Invalid id">>, <<>>, NoDoc)
  ELSE LET key == ObjectIdHex(id) IN
  IF ~Matched(c, key) THEN Res(c, 404, <<"Product not found">>, <<"findOneAndDelete">>, NoDoc)
  ELSE Res(DeleteOne(c, key), 200, <<>>, <<"findOneAndDelete">>, FindOne(c, key))

\* ---------------------------------------------------------------------------
\* Requests
\* ---------------------------------------------------------------------------
\* path ids: the ids the engine can assign, the upper-case spelling of the
\* first one, a 12-character string and a string that is no id at all
UpperId == [i \in 1..24 |-> IF i = 24 THEN "1" ELSE "A"]
TwelveId == [i \in 1..12 |-> "a"]
NotAnId == <<"n", "o", "t", "-", "a", "n", "-", "i", "d">>

Ids == {Oid(n) : n \in 1..MaxDocs} \cup {UpperId, TwelveId, NotAnId}

NameValues == {Undefined, Num(7), Str(<<" ">>), Str(<<" ", "a", " ">>)}
TextValues == {Undefined, Num(7), Str(<<>>), Str(<<" ", "c", " ">>)}
NumberValues == {Undefined, Num(0 - 5), Num(5), Infinity, Str(<<"5">>), Str(<<"x">>)}

Body(kind, name, text, number, other) ==
  [kind |-> kind, name |-> name, text |-> text, number |-> number, other |-> other]

\* req.body when no JSON body was parsed
NoBody == Body("undefined", Undefined, Undefined, Undefined, FALSE)

\* the bodies of the requests: no body, every object over the three known
\* fields, and the objects with an unknown field next to name and the
\* numeric field
Bodies ==
  {NoBody} \cup
  {Body("object", n, x, q, FALSE) :
     n \in NameValues, x \in TextValues, q \in NumberValues} \cup
  {Body("object", n, Undefined, q, TRUE) : n \in NameValues, q \in NumberValues}

NoRequest ==
  [op |-> "none", id |-> <<>>, body |-> NoBody, status |-> 0, error |-> <<>>,
   calls |-> <<>>, item |-> NoDoc, before |-> {}]

\* the request just answered: what was asked, the response, the storage calls
\* issued for it and the collection as it was before
Answered(op, id, body, r) ==
  [op |-> op, id |-> id, body |-> body, status |-> r.status, error |-> r.error,
   calls |-> r.calls, item |-> r.item, before |-> coll]

\* ---------------------------------------------------------------------------
\* The list handlers
\* ---------------------------------------------------------------------------
\* the page size cap and the default page size of GET /api/items
MaxPage == 200
DefaultLimit == 50

\* the largest number of documents that match a list request's filter
MaxTotal == 205

\* a || d for numbers: 0 and NaN are falsy
OrElse(a, d) == IF a.t = "nan" \/ (a.t = "number" /\ a.n = 0) THEN d ELSE a

\* Math.min(a, b) for a that is not NaN and a finite b
MathMin(a, b) == IF a.t = "inf" \/ a.n > b THEN b ELSE a.n

\* cursor.limit(lim).toArray() over total matching documents: the number of
\* documents returned. The engine reads 0 as no limit and a negative limit
\* as its absolute value, served as a single batch.
Limited(total, lim) ==
  LET cap == IF lim < 0 THEN 0 - lim ELSE lim IN
  IF lim = 0 \/ total <= cap THEN total ELSE cap

\* the answer of a list request: status and number of documents returned
Listed(status, count) == [status |-> status, count |-> count]

\* getAllItems: find().toArray()
getAllItemsRes(total) == Listed(200, total)

\* app.get("/api/items") of part_002; limit and minPrice are query-string
\* values, undefined when the parameter is absent
ItemsListRes(total, limit, minPrice) ==
  IF minPrice.t # "undefined" /\ NumberOf(minPrice).t = "nan" THEN Listed(400, 0)
  ELSE LET given == IF limit.t = "undefined" THEN Num(DefaultLimit) ELSE limit
           lim == MathMin(OrElse(NumberOf(given), Num(DefaultLimit)), MaxPage)
       IN Listed(200, Limited(total, lim))

\* app.get("/api/products") of server.js: no limit is applied
ProductsListRes(total, minPrice) ==
  IF minPrice.t # "undefined" /\ NumberOf(minPrice).t = "nan" THEN Listed(400, 0)
  ELSE Listed(200, total)

\* the values of the limit and minPrice query parameters
LimitValues ==
  {Undefined, Str(<<"0">>), Str(<<"7">>), Str(<<"2", "0", "0">>), Str(<<"2", "0", "1">>),
   Str(<<"9", "9", "9">>), Str(<<"-", "7">>), Str(<<"-", "9", "9", "9">>), Str(<<"x">>)}
MinPriceValues == {Undefined, Str(<<"5">>), Str(<<"x">>)}

\* the list request last answered; total is the number of stored documents
\* that match its filter
NoList == [total |-> 0, limit |-> Undefined, minPrice |-> Undefined, status |-> 0, count |-> 0]

ListAnswered(limit, minPrice, r) ==
  [total |-> list.total, limit |-> limit, minPrice |-> minPrice,
   status |-> r.status, count |-> r.count]

\* ---------------------------------------------------------------------------
\* State machine
\* ---------------------------------------------------------------------------
Init ==
  /\ variant \in {"controller", "items", "products"}
  /\ coll = {}
  /\ nextId = 1
  /\ now = 0
  /\ last = NoRequest
  /\ list = NoList
  /\ inflight = {}

Idle == last.op = "none"

\* a handler that inserts: the engine's id counter is capped at MaxDocs
Create(r, body) ==
  /\ r.status = 201 => nextId <= MaxDocs
  /\ coll' = r.coll
  /\ nextId' = IF r.status = 201 THEN nextId + 1 ELSE nextId
  /\ last' = Answered("POST", <<>>, body, r)
  /\ UNCHANGED <<variant, now, list, inflight>>

ById(op, id, body, r) ==
  /\ coll' = r.coll
  /\ last' = Answered(op, id, body, r)
  /\ UNCHANGED <<variant, nextId, now, list, inflight>>

getItemById ==
  /\ Idle /\ variant = "controller"
  /\ \E id \in Ids : ById("GET", id, NoBody, getItemByIdRes(coll, id))

createItem ==
  /\ Idle /\ variant = "controller"
  /\ \E body \in Bodies : Create(createItemRes(coll, body, now, nextId), body)

putItem ==
  /\ Idle /\ variant = "controller"
  /\ \E id \in Ids, body \in Bodies : ById("PUT", id, body, putItemRes(coll, id, body, now))

patchItem ==
  /\ Idle /\ variant = "controller"
  /\ \E id \in Ids, body \in Bodies : ById("PATCH", id, body, patchItemRes(coll, id, body, now))

deleteItem ==
  /\ Idle /\ variant = "controller"
  /\ \E id \in Ids : ById("DELETE", id, NoBody, deleteItemRes(coll, id))

ItemsGetById ==
  /\ Idle /\ variant = "items"
  /\ \E id \in Ids : ById("GET", id, NoBody, ItemsGetByIdRes(coll, id))

ItemsPost ==
  /\ Idle /\ variant = "items"
  /\ \E body \in Bodies : Create(ItemsPostRes(coll, body, now, nextId), body)

ItemsPut ==
  /\ Idle /\ variant = "items"
  /\ \E id \in Ids, body \in Bodies : ById("PUT", id, body, ItemsPutRes(coll, id, body, now))

ItemsPatch ==
  /\ Idle /\ variant = "items"
  /\ \E id \in Ids, body \in Bodies : ById("PATCH", id, body, ItemsPatchRes(coll, id, body, now))

ItemsDelete ==
  /\ Idle /\ variant = "items"
  /\ \E id \in Ids : ById("DELETE", id, NoBody, ItemsDeleteRes(coll, id))

ProductsGetById ==
  /\ Idle /\ variant = "products"
  /\ \E id \in Ids : ById("GET", id, NoBody, ProductsGetByIdRes(coll, id))

ProductsPost ==
  /\ Idle /\ variant = "products"
  /\ \E body \in Bodies : Create(ProductsPostRes(coll, body, now, nextId), body)

ProductsPut ==
  /\ Idle /\ variant = "products"
  /\ \E id \in Ids, body \in Bodies : ById("PUT", id, body, ProductsPutRes(coll, id, body, now))

ProductsDelete ==
  /\ Idle /\ variant = "products"
  /\ \E id \in Ids : ById("DELETE", id, NoBody, ProductsDeleteRes(coll, id))

\* the response has been sent; the server waits for the next request
Respond ==
  /\ ~Idle
  /\ last' = NoRequest
  /\ UNCHANGED <<variant, coll, nextId, now, list, inflight>>

\* the clock read by new Date() advances
Tick ==
  /\ Idle
  /\ now + 1 \in Clock
  /\ now' = now + 1
  /\ UNCHANGED <<variant, coll, nextId, last, list, inflight>>

Next ==
  \/ getItemById \/ createItem \/ putItem \/ patchItem \/ deleteItem
  \/ ItemsGetById \/ ItemsPost \/ ItemsPut \/ ItemsPatch \/ ItemsDelete
  \/ ProductsGetById \/ ProductsPost \/ ProductsPut \/ ProductsDelete
  \/ Respond \/ Tick

Spec == Init /\ [][Next]_vars

\* The server connected to a database that already holds a document, created
\* by an earlier run from {name: "b", <secondary>: "s", <numeric>: 1}. The
\* requests of this run address the documents inserted during the run.
SeedDoc ==
  [_id |-> Oid(0), name |-> Str(<<"b">>), text |-> Str(<<"s">>), number |-> Num(1),
   createdAt |-> 0, updatedAt |-> 0]

InitSeeded ==
  /\ variant \in {"controller", "items", "products"}
  /\ coll = {SeedDoc}
  /\ nextId = 1
  /\ now = 0
  /\ last = NoRequest
  /\ list = NoList
  /\ inflight = {}

SpecSeeded == InitSeeded /\ [][Next]_vars

\* ---------------------------------------------------------------------------
\* Concurrent requests. The handlers of the controller build await two
\* storage calls, the write and then findOne; other requests run between the
\* two. The handlers of the other builds issue one storage call each.
\* ---------------------------------------------------------------------------
\* the requests that may be between their two storage calls at one time
MaxInflight == 2

\* bodies that pass validateItemFull and validateItemPartial
ConcBodies ==
  {Body("object", Str(<<" ", "a", " ">>), Undefined, Num(5), FALSE),
   Body("object", Str(<<"b">>), Undefined, Undefined, FALSE)}

ConcIds == {Oid(n) : n \in 1..MaxDocs}

\* a request whose write is done and whose findOne is still to come
Pending(op, id, body) == [op |-> op, id |-> id, body |-> body]

Await(p) ==
  /\ Cardinality(inflight) < MaxInflight
  /\ p \notin inflight
  /\ inflight' = inflight \cup {p}

\* the response is sent without a second storage call
AnswerNow(op, id, body, r) ==
  /\ last' = Answered(op, id, body, r)
  /\ UNCHANGED <<coll, inflight>>

\* createItem up to and including await insertOne(doc)
createItemInsert ==
  /\ Idle /\ variant = "controller"
  /\ \E body \in ConcBodies \cup {NoBody} :
       LET validationError == validateItemFull(body) IN
       IF validationError # NoError
       THEN /\ AnswerNow("POST", <<>>, body, Res(coll, 400, <<validationError>>, <<>>, NoDoc))
            /\ UNCHANGED nextId
       ELSE /\ nextId <= MaxDocs
            /\ coll' = InsertOne(coll, createItemDoc(body, now), nextId)
            /\ nextId' = nextId + 1
            /\ Await(Pending("POST", Oid(nextId), body))
            /\ UNCHANGED last
  /\ UNCHANGED <<variant, now, list>>

\* putItem up to and including await updateOne(...) and the matchedCount test
putItemUpdate ==
  /\ Idle /\ variant = "controller"
  /\ \E id \in ConcIds, body \in ConcBodies \cup {NoBody} :
       LET validationError == validateItemFull(body)
           key == ObjectIdHex(id) IN
       IF ~isValidObjectId(id)
       THEN AnswerNow("PUT", id, body, Res(coll, 400, <<"Invalid ID">>, <<>>, NoDoc))
       ELSE IF validationError # NoError
       THEN AnswerNow("PUT", id, body, Res(coll, 400, <<validationError>>, <<>>, NoDoc))
       ELSE IF ~Matched(coll, key)
       THEN AnswerNow("PUT", id, body, Res(coll, 404, <<"Not found">>, <<"updateOne">>, NoDoc))
       ELSE /\ coll' = UpdateOne(coll, key, putItemReplacement(body, now))
            /\ Await(Pending("PUT", id, body))
            /\ UNCHANGED last
  /\ UNCHANGED <<variant, nextId, now, list>>

\* patchItem up to and including await updateOne(...) and the matchedCount test
patchItemUpdate ==
  /\ Idle /\ variant = "controller"
  /\ \E id \in ConcIds, body \in ConcBodies \cup {NoBody} :
       LET validationError == validateItemPartial(body)
           key == ObjectIdHex(id) IN
       IF ~isValidObjectId(id)
       THEN AnswerNow("PATCH", id, body, Res(coll, 400, <<"Invalid ID">>, <<>>, NoDoc))
       ELSE IF validationError # NoError
       THEN AnswerNow("PATCH", id, body, Res(coll, 400, <<validationError>>, <<>>, NoDoc))
       ELSE IF ~Matched(coll, key)
       THEN AnswerNow("PATCH", id, body, Res(coll, 404, <<"Not found">>, <<"updateOne">>, NoDoc))
       ELSE /\ coll' = UpdateOne(coll, key, patchItemDoc(body, now))
            /\ Await(Pending("PATCH", id, body))
            /\ UNCHANGED last
  /\ UNCHANGED <<variant, nextId, now, list>>

\* the rest of a handler: await findOne({_id}) and the response with what it
\* returned
FindAndAnswer(p, id, status, calls) ==
  /\ inflight' = inflight \ {p}
  /\ last' = Answered(p.op, id, p.body,
                      Res(coll, status, <<>>, calls, FindOne(coll, ObjectIdHex(p.id))))
  /\ UNCHANGED <<variant, coll, nextId, now, list>>

createItemFind ==
  /\ Idle /\ variant = "controller"
  /\ \E p \in inflight :
       p.op = "POST" /\ FindAndAnswer(p, <<>>, 201, <<"insertOne", "findOne">>)

putItemFind ==
  /\ Idle /\ variant = "controller"
  /\ \E p \in inflight :
       p.op = "PUT" /\ FindAndAnswer(p, p.id, 200, <<"updateOne", "findOne">>)

patchItemFind ==
  /\ Idle /\ variant = "controller"
  /\ \E p \in inflight :
       p.op = "PATCH" /\ FindAndAnswer(p, p.id, 200, <<"updateOne", "findOne">>)

NextConc ==
  \/ createItemInsert \/ createItemFind
  \/ putItemUpdate \/ putItemFind
  \/ patchItemUpdate \/ patchItemFind
  \/ getItemById \/ deleteItem
  \/ ItemsGetById \/ ItemsPost \/ ItemsPut \/ ItemsPatch \/ ItemsDelete
  \/ ProductsGetById \/ ProductsPost \/ ProductsPut \/ ProductsDelete
  \/ Respond \/ Tick

SpecConc == Init /\ [][NextConc]_vars

\* The list handlers over a collection known by the number of documents that
\* match the filter of the request.
InitList ==
  /\ variant \in {"controller", "items", "products"}
  /\ coll = {}
  /\ nextId = 1
  /\ now = 0
  /\ last = NoRequest
  /\ inflight = {}
  /\ \E total \in 0..MaxTotal : list = [NoList EXCEPT !.total = total]

getAllItems ==
  /\ variant = "controller"
  /\ list' = ListAnswered(Undefined, Undefined, getAllItemsRes(list.total))
  /\ UNCHANGED <<variant, coll, nextId, now, last, inflight>>

ItemsList ==
  /\ variant = "items"
  /\ \E limit \in LimitValues, minPrice \in MinPriceValues :
       list' = ListAnswered(limit, minPrice, ItemsListRes(list.total, limit, minPrice))
  /\ UNCHANGED <<variant, coll, nextId, now, last, inflight>>

ProductsList ==
  /\ variant = "products"
  /\ \E minPrice \in MinPriceValues :
       list' = ListAnswered(Undefined, minPrice, ProductsListRes(list.total, minPrice))
  /\ UNCHANGED <<variant, coll, nextId, now, last, inflight>>

NextList == getAllItems \/ ItemsList \/ ProductsList

SpecList == InitList /\ [][NextList]_vars

\* ---------------------------------------------------------------------------
\* Vocabulary of the properties
\* ---------------------------------------------------------------------------
HasId == last.op \in {"GET", "PUT", "PATCH", "DELETE"}

InvalidIdError == last.status = 400 /\ last.error \in {<<"Invalid ID">>, <<"Invalid id">>}

\* the canonical spelling of an identifier: 24 lower-case hex digits
IsCanonical(id) == Len(id) = 24 /\ \A i \in 1..24 : id[i] \in LowerHex

Unchanged == coll = last.before

\* name is a string that is not empty once trimmed
GoodName(v) == v.t = "string" /\ Trim(v.s) # <<>>

Absent(v) == v.t = "undefined"

\* the default of the secondary field in the running build
DefaultText == IF variant = "controller" THEN Str(<<>>) ELSE General

\* a document without its updatedAt
Strip(d) == [d EXCEPT !.updatedAt = 0]
StripAll(c) == {Strip(d) : d \in c}

\* the PUT handler of the running build
PutRes(c, id, body, t) ==
  CASE variant = "controller" -> putItemRes(c, id, body, t)
    [] variant = "items" -> ItemsPutRes(c, id, body, t)
    [] OTHER -> ProductsPutRes(c, id, body, t)

\* the document a by-id request addressed, as it was before and as it is now
TargetBefore == FindOne(last.before, ObjectIdHex(last.id))
TargetNow == FindOne(coll, ObjectIdHex(last.id))

\* ---------------------------------------------------------------------------
\* Properties
\* ---------------------------------------------------------------------------

\* C1: when the identifier check of the running build rejects the path id of a
\* GET, PUT, PATCH or DELETE, the answer is the 400 invalid-id error whatever
\* the body is, no storage call is issued and the collection is left alone.
C1_InvalidIdStopsFirst ==
  (HasId /\ ~IdAccepted(last.id)) =>
    (InvalidIdError /\ last.calls = <<>> /\ Unchanged)

\* an invalid id together with an invalid body, answered with the invalid-id error
C1_Witness ==
  /\ last.op \in {"PUT", "PATCH"}
  /\ ~IdAccepted(last.id)
  /\ last.body.kind = "object" /\ ~GoodName(last.body.name) /\ last.body.other
  /\ coll # {}
  /\ InvalidIdError

\* C2: every id-taking handler answers 400 invalid-id to any path id that is
\* not the canonical 24-character lower-case hex form.
C2_OnlyCanonicalAccepted ==
  (HasId /\ ~IsCanonical(last.id)) => InvalidIdError

\* C3: every stored document has a name that is a string, not empty, not
\* whitespace-only and without leading or trailing whitespace.
C3_StoredNameTrimmed ==
  \A d \in coll : d.name.t = "string" /\ d.name.s # <<>> /\ Trim(d.name.s) = d.name.s

\* a padded name has just been written by an update
C3_Witness ==
  /\ last.op \in {"PUT", "PATCH"}
  /\ last.status = 200
  /\ last.body.name = Str(<<" ", "a", " ">>)
  /\ TargetNow.name = Str(<<"a">>)

\* C4: the numeric field of every stored document is a finite number that is
\* greater than or equal to 0.
C4_StoredNumberNonNegative ==
  \A d \in coll : d.number.t = "number" /\ d.number.n >= 0

\* C5: a PATCH of an existing document whose body is an empty object, or
\* carries a key outside the recognised set, is answered 400 and modifies no
\* document.
C5_PatchEmptyOrUnknownRejected ==
  (last.op = "PATCH" /\ TargetBefore # NoDoc /\ last.body.kind = "object"
     /\ (KeyCount(last.body) = 0 \/ last.body.other)) =>
    (last.status = 400 /\ Unchanged)

\* C6: a POST, or a PUT of an existing document, whose body has no name, a name that is not a string or a
\* name that is empty once trimmed is answered 400 and writes nothing; a PATCH
\* without a name is not refused for it and leaves the stored name alone, and a
\* PATCH with a name that is not a non-empty string is answered 400.
C6_NameRequiredForCreateAndReplace ==
  /\ (last.op \in {"POST", "PUT"} /\ last.body.kind = "object"
        /\ (last.op = "PUT" => TargetBefore # NoDoc)
        /\ ~GoodName(last.body.name)) =>
       (last.status = 400 /\ Unchanged)
  /\ (last.op = "PATCH" /\ last.status = 200 /\ Absent(last.body.name)) =>
       TargetNow.name = TargetBefore.name
  /\ (last.op = "PATCH" /\ last.body.kind = "object"
        /\ ~Absent(last.body.name) /\ ~GoodName(last.body.name)) =>
       (last.status = 400 /\ Unchanged)

\* C7: after a successful POST or PUT an optional field absent from the body
\* holds its default, so the stored secondary and numeric fields depend on the
\* body alone; a successful PATCH leaves every field absent from its body as it
\* was.
C7_FullStateOnCreateAndReplace ==
  /\ (last.op \in {"POST", "PUT"} /\ last.status \in {200, 201}) =>
       /\ Absent(last.body.text) => last.item.text = DefaultText
       /\ Absent(last.body.number) => last.item.number = Num(0)
       /\ last.item \in coll
  /\ (last.op = "PATCH" /\ last.status = 200) =>
       /\ Absent(last.body.name) => TargetNow.name = TargetBefore.name
       /\ Absent(last.body.text) => TargetNow.text = TargetBefore.text
       /\ Absent(last.body.number) => TargetNow.number = TargetBefore.number

\* C8: once a PUT has succeeded, the same PUT applied again, at any later
\* clock reading, succeeds and leaves the collection as it is, updatedAt aside.
C8_ReplaceIdempotent ==
  (last.op = "PUT" /\ last.status = 200) =>
    \A t \in Clock :
      LET again == PutRes(coll, last.id, last.body, t) IN
      again.status = 200 /\ StripAll(again.coll) = StripAll(coll)

\* a PUT that changed the stored document, whose repetition comes with a
\* different updatedAt
C8_Witness ==
  /\ last.op = "PUT" /\ last.status = 200
  /\ StripAll(coll) # StripAll(last.before)
  /\ \E t \in Clock : PutRes(coll, last.id, last.body, t).coll # coll

\* the numeric field values the claim C9 speaks of
Negative(v) == v.t = "number" /\ v.n < 0
NonNumeric(v) == ~Absent(v) /\ TypeOf(v) # "number"

NonNegativeNumberError ==
  /\ last.status = 400
  /\ \E i \in 1..Len(last.error) :
       last.error[i] \in {"price must be a non-negative number",
                          "Field 'quantity' must be a number"}

\* C9: a POST whose numeric field is negative or not a number, in a body that
\* is otherwise acceptable, is answered 400 with the numeric-field error and
\* inserts nothing; a PUT with a negative numeric field is answered 400 and
\* leaves the stored document unchanged.
C9_BadNumberRejected ==
  /\ (last.op = "POST" /\ GoodName(last.body.name)
        /\ (Absent(last.body.text) \/ TypeOf(last.body.text) = "string")
        /\ (Negative(last.body.number) \/ NonNumeric(last.body.number))) =>
       (NonNegativeNumberError /\ Unchanged)
  /\ (last.op = "PUT" /\ last.body.kind = "object" /\ Negative(last.body.number)) =>
       (last.status = 400 /\ Unchanged)

\* a body that carries a name and nothing else
NameOnly(body) ==
  /\ body.kind = "object" /\ body.name.t = "string"
  /\ Absent(body.text) /\ Absent(body.number) /\ ~body.other

\* the document a successful POST answers with is stored, with the trimmed
\* name and the defaults of the other fields
CreatedWithDefaults ==
  /\ last.status = 201
  /\ last.item \in coll /\ last.item \notin last.before
  /\ last.item.name = Str(Trim(last.body.name.s))
  /\ last.item.text = DefaultText
  /\ last.item.number = Num(0)

\* C10, as claimed: a POST with body {name: s}, s any non-empty string,
\* succeeds and stores the trimmed name and the defaults.
C10_AnyNonEmptyNameCreates ==
  (last.op = "POST" /\ NameOnly(last.body) /\ last.body.name.s # <<>>) =>
    CreatedWithDefaults

\* C10, amended: a POST with body {name: s}, s a string that is not empty once
\* trimmed, succeeds and stores the trimmed name and the defaults.
C10_NonBlankNameCreates ==
  (last.op = "POST" /\ NameOnly(last.body) /\ Trim(last.body.name.s) # <<>>) =>
    CreatedWithDefaults

\* a padded name, created
C10_Witness ==
  /\ last.op = "POST" /\ NameOnly(last.body)
  /\ last.body.name.s = <<" ", "a", " ">>
  /\ last.status = 201
  /\ last.item.name = Str(<<"a">>)

\* the stored form the claim C11 gives a string secondary field: trimmed, and
\* in the category builds "general" when nothing is left
TrimmedText(v) ==
  IF Trim(v.s) = <<>> /\ variant # "controller" THEN General ELSE Str(Trim(v.s))

Writes == last.op \in {"POST", "PUT", "PATCH"}

Succeeded == last.status \in {200, 201}

\* C11: in POST, PUT and PATCH a secondary field that is present and not a
\* string is answered 400 and nothing is written; a secondary field that is a
\* string is stored trimmed, and in the category builds as "general" when it
\* is empty once trimmed.
C11_SecondaryFieldStringAndTrimmed ==
  /\ (Writes /\ last.body.kind = "object"
        /\ (last.op # "POST" => TargetBefore # NoDoc)
        /\ ~Absent(last.body.text) /\ TypeOf(last.body.text) # "string") =>
       (last.status = 400 /\ Unchanged)
  /\ (Writes /\ Succeeded /\ last.body.text.t = "string") =>
       (last.item \in coll /\ last.item.text = TrimmedText(last.body.text))

\* C12: a DELETE of an existing document with an accepted id is answered 204
\* without a body and the document is gone; a DELETE with an accepted id that
\* matches no document is answered 404 and leaves the collection unchanged;
\* an id the engine has assigned and that is no longer stored is answered 404
\* by GET and DELETE.
C12_DeleteRemovesForGood ==
  /\ (last.op = "DELETE" /\ IdAccepted(last.id) /\ TargetBefore # NoDoc) =>
       /\ last.status = 204 /\ last.item = NoDoc
       /\ TargetNow = NoDoc
       /\ coll = last.before \ {TargetBefore}
  /\ (last.op = "DELETE" /\ IdAccepted(last.id) /\ TargetBefore = NoDoc) =>
       (last.status = 404 /\ Unchanged)
  /\ (last.op \in {"GET", "DELETE"} /\ IdAccepted(last.id) /\ TargetBefore = NoDoc) =>
       last.status = 404
  /\ \A d \in coll : \E n \in 1..(nextId - 1) : d._id = Oid(n)

\* the documents of c by identifier
IdsOf(c) == {d._id : d \in c}

\* C13: a PUT or PATCH leaves the set of stored identifiers as it was, keeps
\* the createdAt of every document and changes no field of a document other
\* than the addressed one; no request changes the createdAt of a stored
\* document, and a document inserted by Create carries the time of its
\* insertion as createdAt. (A request that leaves the collection as it was
\* changes nothing.)
C13_UpdateFrame ==
  \/ coll = last.before
  \/ /\ last.op \in {"PUT", "PATCH"} =>
          /\ IdsOf(coll) = IdsOf(last.before)
          /\ \A d \in last.before :
               d._id # ObjectIdHex(last.id) => d \in coll
     /\ \A d \in last.before : \A e \in coll :
          e._id = d._id => e.createdAt = d.createdAt
     /\ (last.op = "POST" /\ last.status = 201) =>
          \A e \in coll : e._id \notin IdsOf(last.before) => e.createdAt = now

\* a PUT has rewritten its target at a later time than its creation, next to
\* another stored document
C13_Witness ==
  /\ last.op \in {"PUT", "PATCH"} /\ last.status = 200
  /\ TargetBefore # NoDoc /\ Strip(TargetNow) # Strip(TargetBefore)
  /\ TargetNow.updatedAt # TargetNow.createdAt
  /\ SeedDoc \in coll /\ Cardinality(coll) = 2

\* C14: a list request that is answered 200 returns at most MaxPage
\* documents, whatever the limit parameter and the size of the collection.
C14_ListNeverExceedsCap ==
  list.status = 200 => list.count <= MaxPage

\* the rule of spec section 4.2 an error message reports
RuleOf(msg) ==
  CASE msg \in {"Body must be a JSON object", "body must be a JSON object"} -> "body"
    [] msg \in {"PATCH body cannot be empty", "Unknown field",
                "PATCH requires at least one field"} -> "keys"
    [] msg \in {"Field 'name' is required and must be a non-empty string",
                "Field 'name' must be a non-empty string",
                "name is required (non-empty string)",
                "PUT requires full item: name is required",
                "name must be a non-empty string", "name is required"} -> "name"
    [] msg \in {"Field 'description' must be a string",
                "category must be a string"} -> "text"
    [] msg \in {"Field 'quantity' must be a number",
                "price must be a non-negative number"} -> "number"
    [] OTHER -> "none"

\* the first rule of section 4.2, in its order, that the body of the request
\* last answered violates
EarliestViolated ==
  LET b == last.body IN
  IF b.kind # "object" THEN "body"
  ELSE IF last.op = "PATCH" /\ (KeyCount(b) = 0 \/ b.other) THEN "keys"
  ELSE IF (last.op = "PATCH" /\ ~Absent(b.name) /\ ~GoodName(b.name))
          \/ (last.op # "PATCH" /\ ~GoodName(b.name)) THEN "name"
  ELSE IF ~Absent(b.text) /\ b.text.t # "string" THEN "text"
  ELSE IF ~Absent(b.number) /\ ~(b.number.t = "number" /\ b.number.n >= 0) THEN "number"
  ELSE "none"

\* C15: a 400 that answers a body (not a malformed id) carries one error,
\* the one of the earliest rule the body violates in the order body, patch
\* keys, name, secondary field, numeric field.
C15_FirstFailureWins ==
  (Writes /\ last.status = 400 /\ ~InvalidIdError) =>
    (Len(last.error) = 1 /\ RuleOf(last.error[1]) = EarliestViolated)

\* C16: under any interleaving of requests, a 201 carries the inserted
\* document and a 200 from PUT or PATCH carries a document, not null, in
\* which the name and the numeric field the request sent have the values the
\* request wrote.
C16_SuccessEchoesOwnWrite ==
  (Writes /\ Succeeded) =>
    /\ last.item # NoDoc
    /\ last.body.name.t = "string" => last.item.name = Str(Trim(last.body.name.s))
    /\ last.body.number.t = "number" => last.item.number = last.body.number

====
